---- MODULE Spec2Model ----
(***************************************************************************)
(* Value decoder, person-name codec and date codec of the dicom library.  *)
(*                                                                         *)
(* Texts are sequences of one-character strings, so that splitting,       *)
(* joining and suffix tests are computed as the Go code computes them.    *)
(***************************************************************************)
EXTENDS Integers, Sequences, FiniteSets

VARIABLES
    element,      \* the Element an ElementValueDecoder wraps
    call,         \* the last decoder (or facade) call and its outcome
    valueString,  \* the PN text handed to personname.Parse
    stage,        \* how far the name codec got with valueString
    info,         \* the Info returned by the first Parse
    parseErr,     \* the error returned by the first Parse
    rendered,     \* Info.DCM() of the parsed Info
    reparsed,     \* outcome of Parse(rendered)
    fmtInfo,      \* an Info value built by the caller: the receiver of With...()
    fmtOp,        \* the With...() method called on fmtInfo, with its arguments
    fmtCur,       \* the Info that method returned (fmtInfo itself before a call)
    fmtText,      \* Info.DCM() of fmtCur
    fmtBack,      \* outcome of Parse(fmtText)
    fmtStage,     \* how far the formatting of fmtInfo got
    groupInfo,    \* a GroupInfo value built by the caller
    groupText,    \* GroupInfo.DCM() of groupInfo
    groupStage,   \* whether groupInfo was serialized
    daValue,      \* the DA text handed to dcmtime.ParseDate
    nemaAllowed,  \* the allowNema argument of that call
    daParsed,     \* outcome of ParseDate(daValue, nemaAllowed)
    daText,       \* Date.DCM() of the parsed Date
    daStage       \* how far the date codec got with daValue

decVars == <<element, call>>
pnVars == <<valueString, stage, info, parseErr, rendered, reparsed>>
fmtVars == <<fmtInfo, fmtOp, fmtCur, fmtText, fmtBack, fmtStage>>
groupVars == <<groupInfo, groupText, groupStage>>
dateVars == <<daValue, nemaAllowed, daParsed, daText, daStage>>
vars == <<element, call, valueString, stage, info, parseErr, rendered, reparsed,
          fmtInfo, fmtOp, fmtCur, fmtText, fmtBack, fmtStage,
          groupInfo, groupText, groupStage,
          daValue, nemaAllowed, daParsed, daText, daStage>>

(***************************************************************************)
(* Bounds                                                                  *)
(***************************************************************************)
\* longest value list of an element payload
MaxVals == 2
\* most pieces concatenated into one PN text
MaxPieces == 5
\* longest name segment of a GroupInfo built by the caller
MaxNameLen == 1
\* most pieces concatenated into one DA text
MaxDatePieces == 6

(***************************************************************************)
(* Text helpers (Go strings package)                                       *)
(***************************************************************************)
\* Body applied to the value of v, with v evaluated once (a Go local variable)
Bind(v, Body(_)) == CHOOSE y \in {Body(x) : x \in {v}} : TRUE

Max(a, b) == IF a >= b THEN a ELSE b

Min(a, b) == IF a <= b THEN a ELSE b

SeqsUpTo(S, n) == UNION {[1..k -> S] : k \in 0..n}

RECURSIVE Split(_, _)
Split(s, sep) ==
    LET hits == {i \in 1..Len(s) : s[i] = sep}
    IN  IF hits = {}
        THEN <<s>>
        ELSE LET i == CHOOSE h \in hits : \A g \in hits : h <= g
             IN  <<SubSeq(s, 1, i - 1)>> \o Split(SubSeq(s, i + 1, Len(s)), sep)

RECURSIVE Join(_, _)
Join(segs, sep) ==
    IF Len(segs) = 0 THEN <<>>
    ELSE IF Len(segs) = 1 THEN segs[1]
    ELSE segs[1] \o <<sep>> \o Join(Tail(segs), sep)

HasSuffix(s, c) == Len(s) > 0 /\ s[Len(s)] = c

RECURSIVE Flatten(_)
Flatten(ss) == IF Len(ss) = 0 THEN <<>> ELSE ss[1] \o Flatten(Tail(ss))

(***************************************************************************)
(* Errors: Kind is the constructor that built the error, Chain the        *)
(* sentinels errors.Is() finds by unwrapping, outermost first.             *)
(***************************************************************************)
\* a nil error; the fields after Chain hold what an error's message carries
NoErr ==
    [Kind |-> "nil", Chain |-> <<>>, Count |-> -1, VM |-> "", Raw |-> <<>>,
     Target |-> "", Expected |-> "", Found |-> "", Group |-> "", Index |-> -1]

IsErr(err) == err.Kind # "nil"

ErrIs(err, sentinel) == \E i \in 1..Len(err.Chain) : err.Chain[i] = sentinel

ErrDecodeValue == <<"ErrDecodeValue">>

ErrConvertTypeValue == <<"ErrConvertTypeValue">> \o ErrDecodeValue

ErrMultipleValuesFound == <<"ErrMultipleValuesFound">>

ErrDicomSpecViolation == <<"ErrDicomSpecViolation">> \o ErrDecodeValue

ErrDicomSpecNotSingle == <<"ErrDicomSpecNotSingle">> \o ErrDicomSpecViolation

ErrWrongValueRepresentation == <<"ErrWrongValueRepresentation">> \o ErrDicomSpecViolation

newErrConvertValue(expected, actual) ==
    [NoErr EXCEPT !.Kind = "ErrConvertValue", !.Chain = ErrConvertTypeValue,
                  !.Expected = expected, !.Found = actual]

newErrMultipleValuesFound(valueCount) ==
    [NoErr EXCEPT !.Kind = "ErrMultipleValuesFound", !.Chain = ErrMultipleValuesFound,
                  !.Count = valueCount]

newErrSpecNotSingle(vmRaw) ==
    [NoErr EXCEPT !.Kind = "ErrSpecNotSingle", !.Chain = ErrDicomSpecNotSingle,
                  !.VM = vmRaw]

newErrBadVR(targetValue, expectedVR, foundVR) ==
    [NoErr EXCEPT !.Kind = "ErrBadVR", !.Chain = ErrWrongValueRepresentation,
                  !.Target = targetValue, !.Expected = expectedVR, !.Found = foundVR]

\* fmt.Errorf("... %v: %w", i, err): adds context, keeps the wrapped chain
wrapIndex(i, err) == [err EXCEPT !.Index = i]

\* fmt.Errorf("error getting value as strings ...: %w", err)
wrapContext(err) == err

(***************************************************************************)
(* personname: null levels, GroupInfo, Info                                *)
(***************************************************************************)
segmentSep == "^"

groupSep == "="

GroupNullNone == 0

GroupNullGiven == 1

GroupNullMiddle == 2

GroupNullPrefix == 3

GroupNullAll == 4

InfoNullNone == 0

InfoNullIdeographic == 1

InfoNullAll == 2

pnGroupAlphabetic == 0

pnGroupIdeographic == 1

pnGroupPhonetic == 2

pnGroupString(group) ==
    CASE group = pnGroupAlphabetic -> "Alphabetic"
      [] group = pnGroupIdeographic -> "Ideographic"
      [] group = pnGroupPhonetic -> "Phonetic"

ErrParsePersonName == <<"ErrParsePersonName">>

newErrTooManyGroups(groupsFound) ==
    [NoErr EXCEPT !.Kind = "ErrTooManyGroups", !.Chain = ErrParsePersonName,
                  !.Count = groupsFound]

newErrTooManyGroupSegments(group, segmentsFound) ==
    [NoErr EXCEPT !.Kind = "ErrTooManyGroupSegments", !.Chain = ErrParsePersonName,
                  !.Group = pnGroupString(group), !.Count = segmentsFound]

validateGroupNullSepLevel(level) == level <= GroupNullAll

validateInfoNullSepLevel(level) == level <= InfoNullAll

\* GroupInfo{}: the zero value
ZeroGroupInfo ==
    [FamilyName |-> <<>>, GivenName |-> <<>>, MiddleName |-> <<>>,
     NamePrefix |-> <<>>, NameSuffix |-> <<>>, TrailingNullLevel |-> GroupNullNone]

\* Info{}: the zero value
ZeroInfo ==
    [Alphabetic |-> ZeroGroupInfo, Ideographic |-> ZeroGroupInfo,
     Phonetic |-> ZeroGroupInfo, TrailingNullLevel |-> InfoNullNone]

\* Joins the segments up to the last one that is non-empty or that nullSepLevel
\* forces, so that exactly max(nullSepLevel, last non-empty index) separators
\* are written.
renderWithSeps(segments, sep, nullSepLevel) ==
    LET filled == {i \in 1..Len(segments) : segments[i] # <<>>}
        lastFilled == IF filled = {} THEN 0
                      ELSE (CHOOSE i \in filled : \A j \in filled : j <= i) - 1
        upTo == Min(Max(nullSepLevel, lastFilled) + 1, Len(segments))
    IN  Join(SubSeq(segments, 1, upTo), sep)

GroupSegments(group) ==
    <<group.FamilyName, group.GivenName, group.MiddleName,
      group.NamePrefix, group.NameSuffix>>

\* GroupInfo.DCM() rendering without the group's TrailingNullLevel
GroupDCM_levelNone(group) ==
    IF ~validateGroupNullSepLevel(group.TrailingNullLevel)
    THEN [panicked |-> TRUE, text |-> <<>>]
    ELSE [panicked |-> FALSE,
          text |-> renderWithSeps(GroupSegments(group), segmentSep, GroupNullNone)]

\* GroupInfo.DCM(): panics on an out-of-range level
GroupDCM(group) ==
    IF ~validateGroupNullSepLevel(group.TrailingNullLevel)
    THEN [panicked |-> TRUE, text |-> <<>>]
    ELSE [panicked |-> FALSE,
          text |-> renderWithSeps(GroupSegments(group), segmentSep,
                                  group.TrailingNullLevel)]

GroupIsEmpty(group) ==
    /\ group.FamilyName = <<>>
    /\ group.GivenName = <<>>
    /\ group.MiddleName = <<>>
    /\ group.NamePrefix = <<>>
    /\ group.NameSuffix = <<>>

\* the null level loop keeping the level of an earlier empty element when a
\* non-empty one follows
RECURSIVE nullSepScan_sticky(_, _, _)
nullSepScan_sticky(parts, i, level) ==
    IF i > Len(parts) THEN level
    ELSE nullSepScan_sticky(parts, i + 1, IF parts[i] = <<>> THEN i - 1 ELSE level)

\* the loop taking the number of an empty element, counted from one, as the
\* level
RECURSIVE nullSepScan_oneBased(_, _, _)
nullSepScan_oneBased(parts, i, level) ==
    IF i > Len(parts) THEN level
    ELSE nullSepScan_oneBased(parts, i + 1, IF parts[i] = <<>> THEN i ELSE 0)

\* the loop counting the empty elements since the last non-empty one
RECURSIVE nullSepScan_count(_, _, _)
nullSepScan_count(parts, i, level) ==
    IF i > Len(parts) THEN level
    ELSE nullSepScan_count(parts, i + 1, IF parts[i] = <<>> THEN level + 1 ELSE 0)

\* the for loop of groupFromValueString / Parse over the null level: an empty
\* element sets the level to its index, a non-empty one resets it to NONE
RECURSIVE nullSepScan(_, _, _)
nullSepScan(parts, i, level) ==
    IF i > Len(parts) THEN level
    ELSE nullSepScan(parts, i + 1, IF parts[i] = <<>> THEN i - 1 ELSE 0)

\* groupFromValueString letting a sixth segment through
groupFromValueString_limit6(groupString, group) ==
    Bind(Split(groupString, segmentSep), LAMBDA segments :
    LET segmentCount == Len(segments)
        seg(k) == IF k <= segmentCount THEN segments[k] ELSE <<>>
        nullSepLevel == nullSepScan(segments, 1, GroupNullNone)
    IN  IF segmentCount > 6
        THEN [val |-> ZeroGroupInfo,
              err |-> newErrTooManyGroupSegments(group, segmentCount)]
        ELSE [val |-> [FamilyName |-> seg(1), GivenName |-> seg(2),
                       MiddleName |-> seg(3), NamePrefix |-> seg(4),
                       NameSuffix |-> seg(5),
                       TrailingNullLevel |->
                           IF HasSuffix(groupString, segmentSep)
                           THEN nullSepLevel ELSE GroupNullNone],
              err |-> NoErr])

\* groupFromValueString reading the given name and what follows it one
\* segment too far
groupFromValueString_skipGiven(groupString, group) ==
    Bind(Split(groupString, segmentSep), LAMBDA segments :
    LET segmentCount == Len(segments)
        seg(k) == IF k <= segmentCount THEN segments[k] ELSE <<>>
        nullSepLevel == nullSepScan(segments, 1, GroupNullNone)
    IN  IF segmentCount > 5
        THEN [val |-> ZeroGroupInfo,
              err |-> newErrTooManyGroupSegments(group, segmentCount)]
        ELSE [val |-> [FamilyName |-> seg(1), GivenName |-> seg(3),
                       MiddleName |-> seg(4), NamePrefix |-> seg(5),
                       NameSuffix |-> <<>>,
                       TrailingNullLevel |->
                           IF HasSuffix(groupString, segmentSep)
                           THEN nullSepLevel ELSE GroupNullNone],
              err |-> NoErr])

groupFromValueString(groupString, group) ==
    Bind(Split(groupString, segmentSep), LAMBDA segments :
    LET segmentCount == Len(segments)
        seg(k) == IF k <= segmentCount THEN segments[k] ELSE <<>>
        nullSepLevel == nullSepScan(segments, 1, GroupNullNone)
    IN  IF segmentCount > 5
        THEN [val |-> ZeroGroupInfo,
              err |-> newErrTooManyGroupSegments(group, segmentCount)]
        ELSE [val |-> [FamilyName |-> seg(1), GivenName |-> seg(2),
                       MiddleName |-> seg(3), NamePrefix |-> seg(4),
                       NameSuffix |-> seg(5),
                       TrailingNullLevel |->
                           IF HasSuffix(groupString, segmentSep)
                           THEN nullSepLevel ELSE GroupNullNone],
              err |-> NoErr])

\* the body of Parse's loop from group index i on; returns at the first group
\* that fails
RECURSIVE parseGroups(_, _, _)
parseGroups(groups, i, acc) ==
    IF i > Len(groups) THEN [val |-> acc, err |-> NoErr]
    ELSE Bind(groupFromValueString(groups[i], i - 1), LAMBDA g :
             IF IsErr(g.err) THEN [val |-> ZeroInfo, err |-> g.err]
             ELSE parseGroups(groups, i + 1,
                    CASE i - 1 = pnGroupAlphabetic -> [acc EXCEPT !.Alphabetic = g.val]
                      [] i - 1 = pnGroupIdeographic -> [acc EXCEPT !.Ideographic = g.val]
                      [] i - 1 = pnGroupPhonetic -> [acc EXCEPT !.Phonetic = g.val]))

\* Parse counting the groups only after the first three were parsed
Parse_countLate(text) ==
    Bind(Split(text, groupSep), LAMBDA groups :
        Bind(parseGroups(SubSeq(groups, 1, Min(3, Len(groups))), 1, ZeroInfo), LAMBDA r :
             IF IsErr(r.err) THEN r
             ELSE IF Len(groups) > 3
             THEN [val |-> ZeroInfo, err |-> newErrTooManyGroups(Len(groups))]
             ELSE [val |-> [r.val EXCEPT !.TrailingNullLevel =
                                nullSepScan(groups, 1, InfoNullNone)],
                   err |-> NoErr]))

\* Parse taking the number of the last empty group, counted from one, as the
\* Info's level
Parse_countLevel(text) ==
    Bind(Split(text, groupSep), LAMBDA groups :
        IF Len(groups) > 3
        THEN [val |-> ZeroInfo, err |-> newErrTooManyGroups(Len(groups))]
        ELSE Bind(parseGroups(groups, 1, ZeroInfo), LAMBDA r :
                 IF IsErr(r.err) THEN r
                 ELSE [val |-> [r.val EXCEPT !.TrailingNullLevel =
                                    IF groups[Len(groups)] = <<>>
                                    THEN Len(groups) ELSE InfoNullNone],
                       err |-> NoErr]))

Parse(text) ==
    Bind(Split(text, groupSep), LAMBDA groups :
        IF Len(groups) > 3
        THEN [val |-> ZeroInfo, err |-> newErrTooManyGroups(Len(groups))]
        ELSE Bind(parseGroups(groups, 1, ZeroInfo), LAMBDA r :
                 IF IsErr(r.err) THEN r
                 ELSE [val |-> [r.val EXCEPT !.TrailingNullLevel =
                                    nullSepScan(groups, 1, InfoNullNone)],
                       err |-> NoErr]))

\* Info.DCM() ignoring the Info's own TrailingNullLevel
InfoDCM_noNulls(i) ==
    LET a == GroupDCM(i.Alphabetic)
        g == GroupDCM(i.Ideographic)
        p == GroupDCM(i.Phonetic)
    IN  IF \/ ~validateInfoNullSepLevel(i.TrailingNullLevel)
           \/ a.panicked \/ g.panicked \/ p.panicked
        THEN [panicked |-> TRUE, text |-> <<>>]
        ELSE [panicked |-> FALSE,
              text |-> renderWithSeps(<<a.text, g.text, p.text>>, groupSep,
                                      InfoNullNone)]

\* Info.DCM() leaving the validation to the groups
InfoDCM_groupsOnly(i) ==
    LET a == GroupDCM(i.Alphabetic)
        g == GroupDCM(i.Ideographic)
        p == GroupDCM(i.Phonetic)
    IN  IF a.panicked \/ g.panicked \/ p.panicked
        THEN [panicked |-> TRUE, text |-> <<>>]
        ELSE [panicked |-> FALSE,
              text |-> renderWithSeps(<<a.text, g.text, p.text>>, groupSep,
                                      i.TrailingNullLevel)]

\* Info.DCM(): panics on an out-of-range level, its own or a group's
InfoDCM(i) ==
    LET a == GroupDCM(i.Alphabetic)
        g == GroupDCM(i.Ideographic)
        p == GroupDCM(i.Phonetic)
    IN  IF \/ ~validateInfoNullSepLevel(i.TrailingNullLevel)
           \/ a.panicked \/ g.panicked \/ p.panicked
        THEN [panicked |-> TRUE, text |-> <<>>]
        ELSE [panicked |-> FALSE,
              text |-> renderWithSeps(<<a.text, g.text, p.text>>, groupSep,
                                      i.TrailingNullLevel)]

\* Info.IsEmpty() looking at the alphabetic group only
InfoIsEmpty_alphabetic(i) == GroupIsEmpty(i.Alphabetic)

InfoIsEmpty(i) ==
    GroupIsEmpty(i.Alphabetic) /\ GroupIsEmpty(i.Ideographic) /\ GroupIsEmpty(i.Phonetic)

\* WithFormat handing the ideographic level to the phonetic group and back
WithFormat_swapped(i, infoNullSepLevel, alphabeticNullSepLevel, ideographicNullSepLevel, phoneticNullSepLevel) ==
    [recv |-> i,
     ret |-> [i EXCEPT !.TrailingNullLevel = infoNullSepLevel,
                       !.Alphabetic.TrailingNullLevel = alphabeticNullSepLevel,
                       !.Ideographic.TrailingNullLevel = phoneticNullSepLevel,
                       !.Phonetic.TrailingNullLevel = ideographicNullSepLevel]]

\* Info.WithFormat: the receiver is passed by value, so the four assignments
\* change the copy that is returned (ret) and leave the caller's Info (recv)
WithFormat(i, infoNullSepLevel, alphabeticNullSepLevel, ideographicNullSepLevel, phoneticNullSepLevel) ==
    [recv |-> i,
     ret |-> [i EXCEPT !.TrailingNullLevel = infoNullSepLevel,
                       !.Alphabetic.TrailingNullLevel = alphabeticNullSepLevel,
                       !.Ideographic.TrailingNullLevel = ideographicNullSepLevel,
                       !.Phonetic.TrailingNullLevel = phoneticNullSepLevel]]

\* WithTrailingNulls passing the Info's ALL for the groups as well
WithTrailingNulls_infoAll(i) ==
    WithFormat(i, InfoNullAll, InfoNullAll, InfoNullAll, InfoNullAll)

\* (*Info).WithTrailingNulls: calls WithFormat on the dereferenced receiver
WithTrailingNulls(i) ==
    WithFormat(i, InfoNullAll, GroupNullAll, GroupNullAll, GroupNullAll)

\* (*Info).WithoutTrailingNulls
WithoutTrailingNulls(i) ==
    WithFormat(i, InfoNullNone, GroupNullNone, GroupNullNone, GroupNullNone)

\* WithoutEmptyGroups taking the null level from every group
WithoutEmptyGroups_allGroups(i) ==
    [recv |-> i,
     ret |-> [i EXCEPT !.TrailingNullLevel = InfoNullNone,
                       !.Alphabetic.TrailingNullLevel = GroupNullNone,
                       !.Ideographic.TrailingNullLevel = GroupNullNone,
                       !.Phonetic.TrailingNullLevel = GroupNullNone]]

\* Info.WithoutEmptyGroups: on its copy of the receiver, the Info's level is
\* set to NONE and so is the level of each group that IsEmpty
WithoutEmptyGroups(i) ==
    LET level(group) == IF GroupIsEmpty(group) THEN GroupNullNone
                        ELSE group.TrailingNullLevel
    IN  [recv |-> i,
         ret |-> [i EXCEPT !.TrailingNullLevel = InfoNullNone,
                           !.Alphabetic.TrailingNullLevel = level(i.Alphabetic),
                           !.Ideographic.TrailingNullLevel = level(i.Ideographic),
                           !.Phonetic.TrailingNullLevel = level(i.Phonetic)]]

(***************************************************************************)
(* dcmtime: parsing of DA, TM and DT texts                                 *)
(***************************************************************************)
DigitVal ==
    [c \in {"0", "1", "2", "3", "4", "5", "6", "7", "8", "9"} |->
        CASE c = "0" -> 0 [] c = "1" -> 1 [] c = "2" -> 2 [] c = "3" -> 3
          [] c = "4" -> 4 [] c = "5" -> 5 [] c = "6" -> 6 [] c = "7" -> 7
          [] c = "8" -> 8 [] c = "9" -> 9]

AllDigits(s) == \A i \in 1..Len(s) : s[i] \in DOMAIN DigitVal

RECURSIVE Atoi(_)
Atoi(s) == IF Len(s) = 0 THEN 0
           ELSE 10 * Atoi(SubSeq(s, 1, Len(s) - 1)) + DigitVal[s[Len(s)]]

ErrParseDA == <<"ErrParseDA">>

ErrParseTM == <<"ErrParseTM">>

ErrParseDT == <<"ErrParseDT">>

newErrParse(kind, chain, raw) ==
    [NoErr EXCEPT !.Kind = kind, !.Chain = chain, !.Raw = raw]

\* Date{}: the zero value
ZeroDate == [Year |-> 1, Month |-> 1, Day |-> 1, Precision |-> "Full", IsNEMA |-> FALSE]

\* Time{}: the zero value
ZeroTime == [Hour |-> 0, Minute |-> 0, Second |-> 0, Precision |-> "Full"]

\* Datetime{}: the zero value
ZeroDatetime ==
    [Year |-> 1, Month |-> 1, Day |-> 1, Hour |-> 0, Minute |-> 0, Second |-> 0,
     Precision |-> "Full"]

\* the digit groups of a legacy YYYY.MM.DD or YYYY.MM text, <<>> when the text
\* has no such form
NemaDigits(s) ==
    IF Len(s) = 10 /\ s[5] = "." /\ s[8] = "."
    THEN SubSeq(s, 1, 4) \o SubSeq(s, 6, 7) \o SubSeq(s, 9, 10)
    ELSE IF Len(s) = 7 /\ s[5] = "."
    THEN SubSeq(s, 1, 4) \o SubSeq(s, 6, 7)
    ELSE <<>>

\* the components of a date text with absent ones left at zero
DateFromDigits_zeroDefaults(d) ==
    [Year |-> Atoi(SubSeq(d, 1, 4)),
     Month |-> IF Len(d) >= 6 THEN Atoi(SubSeq(d, 5, 6)) ELSE 0,
     Day |-> IF Len(d) >= 8 THEN Atoi(SubSeq(d, 7, 8)) ELSE 0,
     Precision |-> CASE Len(d) = 4 -> "Year" [] Len(d) = 6 -> "Month"
                     [] OTHER -> "Full",
     IsNEMA |-> FALSE]

DateFromDigits(d) ==
    [Year |-> Atoi(SubSeq(d, 1, 4)),
     Month |-> IF Len(d) >= 6 THEN Atoi(SubSeq(d, 5, 6)) ELSE 1,
     Day |-> IF Len(d) >= 8 THEN Atoi(SubSeq(d, 7, 8)) ELSE 1,
     Precision |-> CASE Len(d) = 4 -> "Year" [] Len(d) = 6 -> "Month"
                     [] OTHER -> "Full",
     IsNEMA |-> FALSE]

\* ParseDate taking, when allowNema is set, any text of four digits or more
\* with dots anywhere as a NEMA date
ParseDate_looseNema(daString, allowNema) ==
    LET nema == Flatten([i \in 1..Len(daString) |->
                            IF daString[i] = "." THEN <<>> ELSE <<daString[i]>>])
    IN  IF AllDigits(daString) /\ Len(daString) \in {4, 6, 8}
        THEN [val |-> DateFromDigits(daString), err |-> NoErr]
        ELSE IF allowNema /\ Len(nema) >= 4 /\ AllDigits(nema)
        THEN [val |-> [DateFromDigits(nema) EXCEPT !.IsNEMA = TRUE], err |-> NoErr]
        ELSE [val |-> ZeroDate, err |-> newErrParse("ErrParseDA", ErrParseDA, daString)]

\* ParseDate reading the NEMA form whatever allowNema says
ParseDate_nemaAlways(daString, allowNema) ==
    LET nema == NemaDigits(daString)
    IN  IF AllDigits(daString) /\ Len(daString) \in {4, 6, 8}
        THEN [val |-> DateFromDigits(daString), err |-> NoErr]
        ELSE IF nema # <<>> /\ AllDigits(nema)
        THEN [val |-> [DateFromDigits(nema) EXCEPT !.IsNEMA = TRUE], err |-> NoErr]
        ELSE [val |-> ZeroDate, err |-> newErrParse("ErrParseDA", ErrParseDA, daString)]

\* ParseDate: the DICOM form first, then, when allowNema is set, the NEMA
\* form, which the Date remembers
ParseDate(daString, allowNema) ==
    LET nema == NemaDigits(daString)
    IN  IF AllDigits(daString) /\ Len(daString) \in {4, 6, 8}
        THEN [val |-> DateFromDigits(daString), err |-> NoErr]
        ELSE IF allowNema /\ nema # <<>> /\ AllDigits(nema)
        THEN [val |-> [DateFromDigits(nema) EXCEPT !.IsNEMA = TRUE], err |-> NoErr]
        ELSE [val |-> ZeroDate, err |-> newErrParse("ErrParseDA", ErrParseDA, daString)]

DigitChar == <<"0", "1", "2", "3", "4", "5", "6", "7", "8", "9">>

\* the last width decimal digits of n, zero-padded
RECURSIVE Pad(_, _)
Pad(n, width) ==
    IF width = 0 THEN <<>>
    ELSE Pad(n \div 10, width - 1) \o <<DigitChar[(n % 10) + 1]>>

\* Date.DCM() writing the day whatever the precision
DateDCM_allDigits(da) ==
    Pad(da.Year, 4) \o Pad(da.Month, 2) \o Pad(da.Day, 2)

\* Date.DCM() never writing the NEMA dots
DateDCM_strict(da) ==
    CASE da.Precision = "Year" -> Pad(da.Year, 4)
      [] da.Precision = "Month" -> Pad(da.Year, 4) \o Pad(da.Month, 2)
      [] OTHER -> Pad(da.Year, 4) \o Pad(da.Month, 2) \o Pad(da.Day, 2)

\* Date.DCM() writing the dots of a NEMA date after the month as well
DateDCM_trailingDot(da) ==
    LET dot == IF da.IsNEMA THEN <<".">> ELSE <<>>
    IN  CASE da.Precision = "Year" -> Pad(da.Year, 4)
          [] da.Precision = "Month" -> Pad(da.Year, 4) \o dot \o Pad(da.Month, 2) \o dot
          [] OTHER -> Pad(da.Year, 4) \o dot \o Pad(da.Month, 2) \o dot
                          \o Pad(da.Day, 2)

\* Date.DCM(): the digit groups up to the Date's precision, with the dots
\* between them when the Date was parsed from a NEMA text
DateDCM(da) ==
    LET dot == IF da.IsNEMA THEN <<".">> ELSE <<>>
    IN  CASE da.Precision = "Year" -> Pad(da.Year, 4)
          [] da.Precision = "Month" -> Pad(da.Year, 4) \o dot \o Pad(da.Month, 2)
          [] OTHER -> Pad(da.Year, 4) \o dot \o Pad(da.Month, 2) \o dot
                          \o Pad(da.Day, 2)

ParseTime(tmString) ==
    IF AllDigits(tmString) /\ Len(tmString) \in {2, 4, 6}
    THEN [val |-> [Hour |-> Atoi(SubSeq(tmString, 1, 2)),
                   Minute |-> IF Len(tmString) >= 4 THEN Atoi(SubSeq(tmString, 3, 4)) ELSE 0,
                   Second |-> IF Len(tmString) >= 6 THEN Atoi(SubSeq(tmString, 5, 6)) ELSE 0,
                   Precision |-> CASE Len(tmString) = 2 -> "Hours"
                                   [] Len(tmString) = 4 -> "Minutes"
                                   [] OTHER -> "Seconds"],
          err |-> NoErr]
    ELSE [val |-> ZeroTime, err |-> newErrParse("ErrParseTM", ErrParseTM, tmString)]

ParseDatetime(dtString) ==
    IF AllDigits(dtString) /\ Len(dtString) \in {4, 6, 8, 10, 12, 14}
    THEN LET part(a, b, dflt) ==
                 IF Len(dtString) >= b THEN Atoi(SubSeq(dtString, a, b)) ELSE dflt
         IN  [val |-> [Year |-> part(1, 4, 1), Month |-> part(5, 6, 1),
                       Day |-> part(7, 8, 1), Hour |-> part(9, 10, 0),
                       Minute |-> part(11, 12, 0), Second |-> part(13, 14, 0),
                       Precision |-> CASE Len(dtString) = 4 -> "Year"
                                       [] Len(dtString) = 6 -> "Month"
                                       [] Len(dtString) = 8 -> "Day"
                                       [] Len(dtString) = 10 -> "Hours"
                                       [] Len(dtString) = 12 -> "Minutes"
                                       [] OTHER -> "Seconds"],
              err |-> NoErr]
    ELSE [val |-> ZeroDatetime,
          err |-> newErrParse("ErrParseDT", ErrParseDT, dtString)]

(***************************************************************************)
(* tag: the dictionary gateway                                             *)
(***************************************************************************)
\* (0010,0010) PatientName, VM "1"
TagPatientName == [Group |-> 16, Element |-> 16]

\* (0008,0008) ImageType, VM "2-n"
TagImageType == [Group |-> 8, Element |-> 8]

\* an even-group tag the dictionary does not know
TagUnknown == [Group |-> 8, Element |-> 4369]

\* a private (odd-group) tag for which a dictionary entry exists all the same
TagPrivate == [Group |-> 9, Element |-> 16]

Tags == {TagPatientName, TagImageType, TagUnknown, TagPrivate}

tagDict ==
    [t \in {TagPatientName, TagImageType, TagPrivate} |->
        CASE t = TagPatientName -> "1"
          [] t = TagImageType -> "2-n"
          [] t = TagPrivate -> "2"]

IsPrivate(group) == group % 2 = 1

\* tag.Find: the entry's VM string, or an error on a miss
Find(t) ==
    IF t \in DOMAIN tagDict THEN [found |-> TRUE, VM |-> tagDict[t]]
    ELSE [found |-> FALSE, VM |-> ""]

IsSingleValue(vm) == vm = "1"

(***************************************************************************)
(* dicom: ElementValueDecoder                                              *)
(***************************************************************************)
vrPersonName == "PN"

vrDate == "DA"

vrTime == "TM"

vrDateTime == "DT"

\* reflect.TypeOf of the payload
GoType(variant) ==
    CASE variant = "bytes" -> "[]uint8"
      [] variant = "strings" -> "[]string"
      [] variant = "ints" -> "[]int"
      [] OTHER -> "[]float64"

\* checkSingleValue trusting the dictionary for private tags too
checkSingleValue_noPrivate(e, valueCount, checkSpec) ==
    IF valueCount # 1 THEN newErrMultipleValuesFound(valueCount)
    ELSE IF ~checkSpec THEN NoErr
    ELSE LET found == Find(e.Tag)
         IN  IF ~found.found THEN NoErr
             ELSE IF ~IsSingleValue(found.VM) THEN newErrSpecNotSingle(found.VM)
             ELSE NoErr

\* checkSingleValue consulting the dictionary before it counts the values
checkSingleValue_specFirst(e, valueCount, checkSpec) ==
    LET found == Find(e.Tag)
    IN  IF checkSpec /\ ~IsPrivate(e.Tag.Group) /\ found.found
           /\ ~IsSingleValue(found.VM)
        THEN newErrSpecNotSingle(found.VM)
        ELSE IF valueCount # 1 THEN newErrMultipleValuesFound(valueCount)
        ELSE NoErr

checkSingleValue(e, valueCount, checkSpec) ==
    IF valueCount # 1 THEN newErrMultipleValuesFound(valueCount)
    ELSE IF ~checkSpec \/ IsPrivate(e.Tag.Group) THEN NoErr
    ELSE LET found == Find(e.Tag)
         IN  IF ~found.found THEN NoErr
             ELSE IF ~IsSingleValue(found.VM) THEN newErrSpecNotSingle(found.VM)
             ELSE NoErr

checkVR(e, expectedVR) == expectedVR = e.RawValueRepresentation

ToBytes(e) ==
    IF e.Value.variant # "bytes"
    THEN [val |-> <<>>, err |-> newErrConvertValue("[]uint8", GoType(e.Value.variant))]
    ELSE [val |-> e.Value.items, err |-> NoErr]

ToStrings(e) ==
    IF e.Value.variant # "strings"
    THEN [val |-> <<>>, err |-> newErrConvertValue("[]string", GoType(e.Value.variant))]
    ELSE [val |-> e.Value.items, err |-> NoErr]

ToString(e, checkSpec) ==
    Bind(ToStrings(e), LAMBDA strings :
        IF IsErr(strings.err) THEN [val |-> <<>>, err |-> strings.err]
        ELSE Bind(checkSingleValue(e, Len(strings.val), checkSpec), LAMBDA err :
                 IF IsErr(err) THEN [val |-> <<>>, err |-> err]
                 ELSE [val |-> strings.val[1], err |-> NoErr]))

\* ToInts accepting a byte payload as well
ToInts_lax(e) ==
    IF e.Value.variant \notin {"ints", "bytes"}
    THEN [val |-> <<>>, err |-> newErrConvertValue("[]int", GoType(e.Value.variant))]
    ELSE [val |-> e.Value.items, err |-> NoErr]

ToInts(e) ==
    IF e.Value.variant # "ints"
    THEN [val |-> <<>>, err |-> newErrConvertValue("[]int", GoType(e.Value.variant))]
    ELSE [val |-> e.Value.items, err |-> NoErr]

ToInt(e, checkSpec) ==
    Bind(ToInts(e), LAMBDA ints :
        IF IsErr(ints.err) THEN [val |-> 0, err |-> ints.err]
        ELSE Bind(checkSingleValue(e, Len(ints.val), checkSpec), LAMBDA err :
                 IF IsErr(err) THEN [val |-> 0, err |-> err]
                 ELSE [val |-> ints.val[1], err |-> NoErr]))

\* index (from 1) of the first string a parser rejects, 0 when there is none
FirstBad(parsed) ==
    LET bad == {i \in 1..Len(parsed) : IsErr(parsed[i].err)}
    IN  IF bad = {} THEN 0 ELSE CHOOSE i \in bad : \A j \in bad : i <= j

\* ToPersonNames comparing the VR only after the strings were parsed
ToPersonNames_vrLate(e) ==
    Bind(ToStrings(e), LAMBDA strings :
        IF IsErr(strings.err) THEN [val |-> <<>>, err |-> strings.err]
        ELSE Bind([i \in 1..Len(strings.val) |-> Parse(strings.val[i])], LAMBDA parsed :
             Bind(FirstBad(parsed), LAMBDA bad :
                 IF bad # 0
                 THEN [val |-> [i \in 1..Len(parsed) |->
                                   IF i < bad THEN parsed[i].val ELSE ZeroInfo],
                       err |-> wrapIndex(bad - 1, parsed[bad].err)]
                 ELSE IF ~checkVR(e, vrPersonName)
                 THEN [val |-> <<>>,
                       err |-> newErrBadVR("personname.Info", vrPersonName,
                                           e.RawValueRepresentation)]
                 ELSE [val |-> [i \in 1..Len(parsed) |-> parsed[i].val],
                       err |-> NoErr])))

\* ToPersonNames returning no list when a string fails to parse
ToPersonNames_nilOnError(e) ==
    IF ~checkVR(e, vrPersonName)
    THEN [val |-> <<>>,
          err |-> newErrBadVR("personname.Info", vrPersonName, e.RawValueRepresentation)]
    ELSE Bind(ToStrings(e), LAMBDA strings :
        IF IsErr(strings.err) THEN [val |-> <<>>, err |-> strings.err]
        ELSE Bind([i \in 1..Len(strings.val) |-> Parse(strings.val[i])], LAMBDA parsed :
             Bind(FirstBad(parsed), LAMBDA bad :
                 IF bad # 0
                 THEN [val |-> <<>>, err |-> wrapIndex(bad - 1, parsed[bad].err)]
                 ELSE [val |-> [i \in 1..Len(parsed) |-> parsed[i].val],
                       err |-> NoErr])))

ToPersonNames(e) ==
    IF ~checkVR(e, vrPersonName)
    THEN [val |-> <<>>,
          err |-> newErrBadVR("personname.Info", vrPersonName, e.RawValueRepresentation)]
    ELSE Bind(ToStrings(e), LAMBDA strings :
        IF IsErr(strings.err) THEN [val |-> <<>>, err |-> strings.err]
        ELSE Bind([i \in 1..Len(strings.val) |-> Parse(strings.val[i])], LAMBDA parsed :
             Bind(FirstBad(parsed), LAMBDA bad :
                 IF bad # 0
                 THEN [val |-> [i \in 1..Len(parsed) |->
                                   IF i < bad THEN parsed[i].val ELSE ZeroInfo],
                       err |-> wrapIndex(bad - 1, parsed[bad].err)]
                 ELSE [val |-> [i \in 1..Len(parsed) |-> parsed[i].val],
                       err |-> NoErr])))

\* ToPersonName counting the strings before any of them is parsed
ToPersonName_countFirst(e, checkSpec) ==
    Bind(ToStrings(e), LAMBDA strings :
        IF checkVR(e, vrPersonName) /\ ~IsErr(strings.err) /\ Len(strings.val) # 1
        THEN [val |-> ZeroInfo, err |-> newErrMultipleValuesFound(Len(strings.val))]
        ELSE Bind(ToPersonNames(e), LAMBDA names :
            IF IsErr(names.err) THEN [val |-> ZeroInfo, err |-> names.err]
            ELSE Bind(checkSingleValue(e, Len(names.val), checkSpec), LAMBDA err :
                     IF IsErr(err) THEN [val |-> ZeroInfo, err |-> err]
                     ELSE [val |-> names.val[1], err |-> NoErr])))

ToPersonName(e, checkSpec) ==
    Bind(ToPersonNames(e), LAMBDA names :
        IF IsErr(names.err) THEN [val |-> ZeroInfo, err |-> names.err]
        ELSE Bind(checkSingleValue(e, Len(names.val), checkSpec), LAMBDA err :
                 IF IsErr(err) THEN [val |-> ZeroInfo, err |-> err]
                 ELSE [val |-> names.val[1], err |-> NoErr]))

ToDates(e, allowNema) ==
    IF ~checkVR(e, vrDate)
    THEN [val |-> <<>>,
          err |-> newErrBadVR("personname.Info", vrPersonName, e.RawValueRepresentation)]
    ELSE Bind(ToStrings(e), LAMBDA dateStrings :
        IF IsErr(dateStrings.err) THEN [val |-> <<>>, err |-> wrapContext(dateStrings.err)]
        ELSE Bind([i \in 1..Len(dateStrings.val) |-> ParseDate(dateStrings.val[i], allowNema)], LAMBDA parsed :
             Bind(FirstBad(parsed), LAMBDA bad :
                 IF bad # 0
                 THEN [val |-> <<>>, err |-> wrapIndex(bad - 1, parsed[bad].err)]
                 ELSE [val |-> [i \in 1..Len(parsed) |-> parsed[i].val],
                       err |-> NoErr])))

ToDate(e, checkSpec, allowNema) ==
    Bind(ToDates(e, allowNema), LAMBDA dates :
        IF IsErr(dates.err) THEN [val |-> ZeroDate, err |-> dates.err]
        ELSE Bind(checkSingleValue(e, Len(dates.val), checkSpec), LAMBDA err :
                 IF IsErr(err) THEN [val |-> ZeroDate, err |-> err]
                 ELSE [val |-> dates.val[1], err |-> NoErr]))

ToTimes(e) ==
    IF ~checkVR(e, vrTime)
    THEN [val |-> <<>>,
          err |-> newErrBadVR("personname.Info", vrTime, e.RawValueRepresentation)]
    ELSE Bind(ToStrings(e), LAMBDA timeStrings :
        IF IsErr(timeStrings.err) THEN [val |-> <<>>, err |-> wrapContext(timeStrings.err)]
        ELSE Bind([i \in 1..Len(timeStrings.val) |-> ParseTime(timeStrings.val[i])], LAMBDA parsed :
             Bind(FirstBad(parsed), LAMBDA bad :
                 IF bad # 0
                 THEN [val |-> <<>>, err |-> wrapIndex(bad - 1, parsed[bad].err)]
                 ELSE [val |-> [i \in 1..Len(parsed) |-> parsed[i].val],
                       err |-> NoErr])))

ToTime(e, checkSpec) ==
    Bind(ToTimes(e), LAMBDA times :
        IF IsErr(times.err) THEN [val |-> ZeroTime, err |-> times.err]
        ELSE Bind(checkSingleValue(e, Len(times.val), checkSpec), LAMBDA err :
                 IF IsErr(err) THEN [val |-> ZeroTime, err |-> err]
                 ELSE [val |-> times.val[1], err |-> NoErr]))

ToDatetimes(e) ==
    IF ~checkVR(e, vrDateTime)
    THEN [val |-> <<>>,
          err |-> newErrBadVR("personname.Info", vrDateTime, e.RawValueRepresentation)]
    ELSE Bind(ToStrings(e), LAMBDA timeStrings :
        IF IsErr(timeStrings.err) THEN [val |-> <<>>, err |-> wrapContext(timeStrings.err)]
        ELSE Bind([i \in 1..Len(timeStrings.val) |-> ParseDatetime(timeStrings.val[i])], LAMBDA parsed :
             Bind(FirstBad(parsed), LAMBDA bad :
                 IF bad # 0
                 THEN [val |-> <<>>, err |-> wrapIndex(bad - 1, parsed[bad].err)]
                 ELSE [val |-> [i \in 1..Len(parsed) |-> parsed[i].val],
                       err |-> NoErr])))

ToDatetime(e, checkSpec) ==
    Bind(ToDatetimes(e), LAMBDA datetimes :
        IF IsErr(datetimes.err) THEN [val |-> ZeroDatetime, err |-> datetimes.err]
        ELSE Bind(checkSingleValue(e, Len(datetimes.val), checkSpec), LAMBDA err :
                 IF IsErr(err) THEN [val |-> ZeroDatetime, err |-> err]
                 ELSE [val |-> datetimes.val[1], err |-> NoErr]))

(***************************************************************************)
(* dicom: ElementMustValueDecoder, the facade that panics                  *)
(***************************************************************************)
\* panic(err): the call returns nothing
Panic(err) == [panicked |-> TRUE, val |-> <<>>, err |-> err]

Return(val) == [panicked |-> FALSE, val |-> val, err |-> NoErr]

MustToBytes(e) ==
    Bind(ToBytes(e), LAMBDA r : IF IsErr(r.err) THEN Panic(r.err) ELSE Return(r.val))

MustToStrings(e) ==
    Bind(ToStrings(e), LAMBDA r : IF IsErr(r.err) THEN Panic(r.err) ELSE Return(r.val))

MustToString(e, checkSpec) ==
    Bind(ToString(e, checkSpec), LAMBDA r : IF IsErr(r.err) THEN Panic(r.err) ELSE Return(r.val))

MustToInts(e) ==
    Bind(ToInts(e), LAMBDA r : IF IsErr(r.err) THEN Panic(r.err) ELSE Return(r.val))

MustToInt(e, checkSpec) ==
    Bind(ToInt(e, checkSpec), LAMBDA r : IF IsErr(r.err) THEN Panic(r.err) ELSE Return(r.val))

MustToPersonNames(e) ==
    Bind(ToPersonNames(e), LAMBDA r : IF IsErr(r.err) THEN Panic(r.err) ELSE Return(r.val))

\* MustToPersonName returning the zero value instead of panicking
MustToPersonName_swallow(e, checkSpec) ==
    Bind(ToPersonName(e, checkSpec), LAMBDA r : Return(r.val))

MustToPersonName(e, checkSpec) ==
    Bind(ToPersonName(e, checkSpec), LAMBDA r : IF IsErr(r.err) THEN Panic(r.err) ELSE Return(r.val))

MustToDates(e, allowNema) ==
    Bind(ToDates(e, allowNema), LAMBDA r : IF IsErr(r.err) THEN Panic(r.err) ELSE Return(r.val))

MustToDate(e, checkSpec, allowNema) ==
    Bind(ToDate(e, checkSpec, allowNema), LAMBDA r : IF IsErr(r.err) THEN Panic(r.err) ELSE Return(r.val))

MustToTimes(e) ==
    Bind(ToTimes(e), LAMBDA r : IF IsErr(r.err) THEN Panic(r.err) ELSE Return(r.val))

MustToTime(e, checkSpec) ==
    Bind(ToTime(e, checkSpec), LAMBDA r : IF IsErr(r.err) THEN Panic(r.err) ELSE Return(r.val))

MustToDatetimes(e) ==
    Bind(ToDatetimes(e), LAMBDA r : IF IsErr(r.err) THEN Panic(r.err) ELSE Return(r.val))

MustToDatetime(e, checkSpec) ==
    Bind(ToDatetime(e, checkSpec), LAMBDA r : IF IsErr(r.err) THEN Panic(r.err) ELSE Return(r.val))

(***************************************************************************)
(* The elements a decoder may wrap                                         *)
(***************************************************************************)
VRs == {vrPersonName, vrDate, vrTime, vrDateTime, "LO"}

\* "A^B", "===", "^^^^^", "2020", "20", "2020.03"
StringPool ==
    {<<"A", "^", "B">>, <<"=", "=", "=">>, <<"^", "^", "^", "^", "^">>,
     <<"2", "0", "2", "0">>, <<"2", "0">>, <<"2", "0", "2", "0", ".", "0", "3">>}

Payloads ==
    {[variant |-> "bytes", items |-> s] : s \in SeqsUpTo({0, 255}, MaxVals)}
    \cup {[variant |-> "ints", items |-> s] : s \in SeqsUpTo({0, 7}, MaxVals)}
    \cup {[variant |-> "strings", items |-> s] : s \in SeqsUpTo(StringPool, MaxVals)}
    \cup {[variant |-> "floats", items |-> <<>>]}

Elements == [Tag : Tags, RawValueRepresentation : VRs, Value : Payloads]

NoCall ==
    [op |-> "none", must |-> FALSE, checkSpec |-> FALSE, allowNema |-> FALSE,
     panicked |-> FALSE, val |-> <<>>, err |-> NoErr]

\* the PN texts handed to Parse: up to MaxPieces pieces, each a character or a
\* run of segment separators
Pieces ==
    {<<"A">>, <<"^">>, <<"=">>, <<"^", "^", "^", "^">>, <<"^", "^", "^", "^", "^">>}

PNTexts == {Flatten(ps) : ps \in SeqsUpTo(Pieces, MaxPieces)}

\* the GroupInfo values a caller may build: any five segments, any level of
\* the uint type up to one past GroupNullAll
Names == SeqsUpTo({"A"}, MaxNameLen)

GroupInfos ==
    [FamilyName : Names, GivenName : Names, MiddleName : Names,
     NamePrefix : Names, NameSuffix : Names,
     TrailingNullLevel : GroupNullNone..(GroupNullAll + 1)]

\* the segments of the groups of an Info built by the caller: none, a family
\* and a given name, a middle name alone, a family name holding a separator
FmtGroupSegments ==
    {<< <<>>, <<>>, <<>>, <<>>, <<>> >>,
     << <<"A">>, <<"B">>, <<>>, <<>>, <<>> >>,
     << <<>>, <<>>, <<"A">>, <<>>, <<>> >>,
     << <<"^">>, <<>>, <<>>, <<>>, <<>> >>}

FmtGroupLevels == {GroupNullAll, GroupNullAll + 1}

FmtInfoLevels == {InfoNullAll, InfoNullAll + 1}

FmtGroups ==
    {[FamilyName |-> g[1], GivenName |-> g[2], MiddleName |-> g[3],
      NamePrefix |-> g[4], NameSuffix |-> g[5], TrailingNullLevel |-> l] :
        g \in FmtGroupSegments, l \in FmtGroupLevels}

FmtInfos ==
    [Alphabetic : FmtGroups, Ideographic : FmtGroups, Phonetic : FmtGroups,
     TrailingNullLevel : FmtInfoLevels]

\* the levels passed to WithFormat
FmtInfoArgs == {InfoNullIdeographic, InfoNullAll + 1}

FmtGroupArgs == {GroupNullMiddle, GroupNullAll + 1}

NoFmtOp ==
    [name |-> "none", infoNullSepLevel |-> InfoNullNone,
     alphabeticNullSepLevel |-> GroupNullNone,
     ideographicNullSepLevel |-> GroupNullNone,
     phoneticNullSepLevel |-> GroupNullNone]

\* the DA texts handed to ParseDate: up to MaxDatePieces pieces
DatePieces == {<<"2", "0">>, <<"0", "3">>, <<"1">>, <<".">>}

DateTexts == {Flatten(ps) : ps \in SeqsUpTo(DatePieces, MaxDatePieces)}

\* the Dates a caller builds from a calendar value and a precision
BuiltDates ==
    {[Year |-> y, Month |-> m, Day |-> d, Precision |-> p, IsNEMA |-> nema] :
        y \in {1010, 2020}, m \in {1, 2, 12}, d \in {1, 3, 31},
        p \in {"Year", "Month", "Day", "Full"}, nema \in BOOLEAN}

(***************************************************************************)
(* Decoder calls. A decoder wraps one element and never changes it, so a   *)
(* behaviour examines one call on the element it started with.             *)
(***************************************************************************)
Called(op, must, checkSpec, allowNema, r) ==
    /\ call.op = "none"
    /\ call' = [op |-> op, must |-> must, checkSpec |-> checkSpec,
                allowNema |-> allowNema,
                panicked |-> IF must THEN r.panicked ELSE FALSE,
                val |-> r.val, err |-> r.err]
    /\ UNCHANGED <<element, pnVars, fmtVars, groupVars, dateVars>>

CallToBytes ==
    Called("ToBytes", FALSE, FALSE, FALSE,
           ToBytes(element))

CallToStrings ==
    Called("ToStrings", FALSE, FALSE, FALSE,
           ToStrings(element))

CallToString ==
    \E checkSpec \in BOOLEAN :
    Called("ToString", FALSE, checkSpec, FALSE,
           ToString(element, checkSpec))

CallToInts ==
    Called("ToInts", FALSE, FALSE, FALSE,
           ToInts(element))

CallToInt ==
    \E checkSpec \in BOOLEAN :
    Called("ToInt", FALSE, checkSpec, FALSE,
           ToInt(element, checkSpec))

CallToPersonNames ==
    Called("ToPersonNames", FALSE, FALSE, FALSE,
           ToPersonNames(element))

CallToPersonName ==
    \E checkSpec \in BOOLEAN :
    Called("ToPersonName", FALSE, checkSpec, FALSE,
           ToPersonName(element, checkSpec))

CallToDates ==
    \E allowNema \in BOOLEAN :
    Called("ToDates", FALSE, FALSE, allowNema,
           ToDates(element, allowNema))

CallToDate ==
    \E checkSpec, allowNema \in BOOLEAN :
    Called("ToDate", FALSE, checkSpec, allowNema,
           ToDate(element, checkSpec, allowNema))

CallToTimes ==
    Called("ToTimes", FALSE, FALSE, FALSE,
           ToTimes(element))

CallToTime ==
    \E checkSpec \in BOOLEAN :
    Called("ToTime", FALSE, checkSpec, FALSE,
           ToTime(element, checkSpec))

CallToDatetimes ==
    Called("ToDatetimes", FALSE, FALSE, FALSE,
           ToDatetimes(element))

CallToDatetime ==
    \E checkSpec \in BOOLEAN :
    Called("ToDatetime", FALSE, checkSpec, FALSE,
           ToDatetime(element, checkSpec))

CallMustToBytes ==
    Called("ToBytes", TRUE, FALSE, FALSE,
           MustToBytes(element))

CallMustToStrings ==
    Called("ToStrings", TRUE, FALSE, FALSE,
           MustToStrings(element))

CallMustToString ==
    \E checkSpec \in BOOLEAN :
    Called("ToString", TRUE, checkSpec, FALSE,
           MustToString(element, checkSpec))

CallMustToInts ==
    Called("ToInts", TRUE, FALSE, FALSE,
           MustToInts(element))

CallMustToInt ==
    \E checkSpec \in BOOLEAN :
    Called("ToInt", TRUE, checkSpec, FALSE,
           MustToInt(element, checkSpec))

CallMustToPersonNames ==
    Called("ToPersonNames", TRUE, FALSE, FALSE,
           MustToPersonNames(element))

CallMustToPersonName ==
    \E checkSpec \in BOOLEAN :
    Called("ToPersonName", TRUE, checkSpec, FALSE,
           MustToPersonName(element, checkSpec))

CallMustToDates ==
    \E allowNema \in BOOLEAN :
    Called("ToDates", TRUE, FALSE, allowNema,
           MustToDates(element, allowNema))

CallMustToDate ==
    \E checkSpec, allowNema \in BOOLEAN :
    Called("ToDate", TRUE, checkSpec, allowNema,
           MustToDate(element, checkSpec, allowNema))

CallMustToTimes ==
    Called("ToTimes", TRUE, FALSE, FALSE,
           MustToTimes(element))

CallMustToTime ==
    \E checkSpec \in BOOLEAN :
    Called("ToTime", TRUE, checkSpec, FALSE,
           MustToTime(element, checkSpec))

CallMustToDatetimes ==
    Called("ToDatetimes", TRUE, FALSE, FALSE,
           MustToDatetimes(element))

CallMustToDatetime ==
    \E checkSpec \in BOOLEAN :
    Called("ToDatetime", TRUE, checkSpec, FALSE,
           MustToDatetime(element, checkSpec))

(***************************************************************************)
(* Name codec steps: Parse, then DCM of the result, then Parse of that     *)
(***************************************************************************)
PNParse ==
    /\ stage = "input"
    /\ LET r == Parse(valueString)
       IN  /\ info' = r.val
           /\ parseErr' = r.err
           /\ stage' = IF IsErr(r.err) THEN "failed" ELSE "parsed"
    /\ UNCHANGED <<decVars, fmtVars, groupVars, dateVars, valueString, rendered, reparsed>>

PNSerialize ==
    /\ stage = "parsed"
    /\ rendered' = InfoDCM(info)
    /\ stage' = "rendered"
    /\ UNCHANGED <<decVars, fmtVars, groupVars, dateVars, valueString, info, parseErr, reparsed>>

PNReparse ==
    /\ stage = "rendered"
    /\ ~rendered.panicked
    /\ reparsed' = Parse(rendered.text)
    /\ stage' = "reparsed"
    /\ UNCHANGED <<decVars, fmtVars, groupVars, dateVars, valueString, info, parseErr, rendered>>

(***************************************************************************)
(* Formatting of an Info the caller built: a With...() method, then DCM of *)
(* what it returned (or of the Info itself), then Parse of that text       *)
(***************************************************************************)
FmtWith(op, r) ==
    /\ fmtStage = "built"
    /\ fmtOp' = op
    /\ fmtInfo' = r.recv
    /\ fmtCur' = r.ret
    /\ fmtStage' = "shaped"
    /\ UNCHANGED <<decVars, pnVars, groupVars, dateVars, fmtText, fmtBack>>

FmtWithFormat ==
    \E il \in FmtInfoArgs, al, gl, pl \in FmtGroupArgs :
        FmtWith([name |-> "WithFormat", infoNullSepLevel |-> il,
                 alphabeticNullSepLevel |-> al, ideographicNullSepLevel |-> gl,
                 phoneticNullSepLevel |-> pl],
                WithFormat(fmtInfo, il, al, gl, pl))

FmtWithTrailingNulls ==
    FmtWith([NoFmtOp EXCEPT !.name = "WithTrailingNulls"],
            WithTrailingNulls(fmtInfo))

FmtWithoutTrailingNulls ==
    FmtWith([NoFmtOp EXCEPT !.name = "WithoutTrailingNulls"],
            WithoutTrailingNulls(fmtInfo))

FmtWithoutEmptyGroups ==
    FmtWith([NoFmtOp EXCEPT !.name = "WithoutEmptyGroups"],
            WithoutEmptyGroups(fmtInfo))

FmtDCM ==
    /\ fmtStage \in {"built", "shaped"}
    /\ fmtText' = InfoDCM(fmtCur)
    /\ fmtStage' = "text"
    /\ UNCHANGED <<decVars, pnVars, groupVars, dateVars, fmtInfo, fmtOp, fmtCur, fmtBack>>

FmtParse ==
    /\ fmtStage = "text"
    /\ ~fmtText.panicked
    /\ fmtBack' = Parse(fmtText.text)
    /\ fmtStage' = "back"
    /\ UNCHANGED <<decVars, pnVars, groupVars, dateVars, fmtInfo, fmtOp, fmtCur, fmtText>>

(***************************************************************************)
(* Serialization of one GroupInfo the caller built                         *)
(***************************************************************************)
GroupSerialize ==
    /\ groupStage = "built"
    /\ groupText' = GroupDCM(groupInfo)
    /\ groupStage' = "text"
    /\ UNCHANGED <<decVars, pnVars, fmtVars, dateVars, groupInfo>>

(***************************************************************************)
(* Date codec steps: ParseDate, then DCM of the Date                       *)
(***************************************************************************)
DateParse ==
    /\ daStage = "input"
    /\ LET r == ParseDate(daValue, nemaAllowed)
       IN  /\ daParsed' = r
           /\ daStage' = IF IsErr(r.err) THEN "failed" ELSE "parsed"
    /\ UNCHANGED <<decVars, pnVars, fmtVars, groupVars, daValue, nemaAllowed, daText>>

DateSerialize ==
    /\ daStage \in {"parsed", "built"}
    /\ daText' = DateDCM(daParsed.val)
    /\ daStage' = IF daStage = "built" THEN "emitted" ELSE "rendered"
    /\ UNCHANGED <<decVars, pnVars, fmtVars, groupVars, daValue, nemaAllowed, daParsed>>

(***************************************************************************)
(* Specifications                                                          *)
(***************************************************************************)
NoRender == [panicked |-> FALSE, text |-> <<>>]

NoParse == [val |-> ZeroInfo, err |-> NoErr]

NoDate == [val |-> ZeroDate, err |-> NoErr]

\* no decoder call is under way
DecIdle ==
    /\ element = [Tag |-> TagPatientName, RawValueRepresentation |-> vrPersonName,
                  Value |-> [variant |-> "strings", items |-> <<>>]]
    /\ call = NoCall

\* no PN text is being parsed
PNIdle ==
    /\ valueString = <<>>
    /\ stage = "idle"
    /\ info = ZeroInfo
    /\ parseErr = NoErr
    /\ rendered = NoRender
    /\ reparsed = NoParse

\* no Info is being formatted
FmtIdle ==
    /\ fmtInfo = ZeroInfo
    /\ fmtOp = NoFmtOp
    /\ fmtCur = ZeroInfo
    /\ fmtText = NoRender
    /\ fmtBack = NoParse
    /\ fmtStage = "idle"

\* no GroupInfo is being serialized
GroupIdle ==
    /\ groupInfo = ZeroGroupInfo
    /\ groupText = NoRender
    /\ groupStage = "idle"

\* no DA text is being parsed
DateIdle ==
    /\ daValue = <<>>
    /\ nemaAllowed = FALSE
    /\ daParsed = NoDate
    /\ daText = <<>>
    /\ daStage = "idle"

\* a decoder constructed around any element
Init ==
    /\ element \in Elements
    /\ call = NoCall
    /\ PNIdle
    /\ FmtIdle
    /\ GroupIdle
    /\ DateIdle

Next ==
    \/ CallToBytes
    \/ CallToStrings
    \/ CallToString
    \/ CallToInts
    \/ CallToInt
    \/ CallToPersonNames
    \/ CallToPersonName
    \/ CallToDates
    \/ CallToDate
    \/ CallToTimes
    \/ CallToTime
    \/ CallToDatetimes
    \/ CallToDatetime
    \/ CallMustToBytes
    \/ CallMustToStrings
    \/ CallMustToString
    \/ CallMustToInts
    \/ CallMustToInt
    \/ CallMustToPersonNames
    \/ CallMustToPersonName
    \/ CallMustToDates
    \/ CallMustToDate
    \/ CallMustToTimes
    \/ CallMustToTime
    \/ CallMustToDatetimes
    \/ CallMustToDatetime

Spec == Init /\ [][Next]_vars

\* the name codec given any PN text
InitPN ==
    /\ DecIdle
    /\ valueString \in PNTexts
    /\ stage = "input"
    /\ info = ZeroInfo
    /\ parseErr = NoErr
    /\ rendered = NoRender
    /\ reparsed = NoParse
    /\ FmtIdle
    /\ GroupIdle
    /\ DateIdle

NextPN ==
    \/ PNParse
    \/ PNSerialize
    \/ PNReparse

SpecPN == InitPN /\ [][NextPN]_vars

\* any Info the caller built, about to be formatted
InitFmt ==
    /\ DecIdle
    /\ PNIdle
    /\ fmtInfo \in FmtInfos
    /\ fmtOp = NoFmtOp
    /\ fmtCur = fmtInfo
    /\ fmtText = NoRender
    /\ fmtBack = NoParse
    /\ fmtStage = "built"
    /\ GroupIdle
    /\ DateIdle

NextFmt ==
    \/ FmtWithFormat
    \/ FmtWithTrailingNulls
    \/ FmtWithoutTrailingNulls
    \/ FmtWithoutEmptyGroups
    \/ FmtDCM
    \/ FmtParse

SpecFmt == InitFmt /\ [][NextFmt]_vars

\* any GroupInfo the caller built, about to be serialized
InitGroup ==
    /\ DecIdle
    /\ PNIdle
    /\ FmtIdle
    /\ groupInfo \in GroupInfos
    /\ groupText = NoRender
    /\ groupStage = "built"
    /\ DateIdle

NextGroup == GroupSerialize

SpecGroup == InitGroup /\ [][NextGroup]_vars

\* the date codec given any DA text and either setting of allowNema, or any
\* Date the caller built
InitDate ==
    /\ DecIdle
    /\ PNIdle
    /\ FmtIdle
    /\ GroupIdle
    /\ daText = <<>>
    /\ \/ /\ daValue \in DateTexts
          /\ nemaAllowed \in BOOLEAN
          /\ daParsed = NoDate
          /\ daStage = "input"
       \/ /\ daValue = <<>>
          /\ nemaAllowed = FALSE
          /\ daParsed \in {[val |-> da, err |-> NoErr] : da \in BuiltDates}
          /\ daStage = "built"

NextDate ==
    \/ DateParse
    \/ DateSerialize

SpecDate == InitDate /\ [][NextDate]_vars

(***************************************************************************)
(* Properties of the decoder (checked under Spec)                          *)
(***************************************************************************)
SingleOps == {"ToString", "ToInt", "ToPersonName", "ToDate", "ToTime", "ToDatetime"}

SemanticOps ==
    {"ToPersonNames", "ToPersonName", "ToDates", "ToDate", "ToTimes", "ToTime",
     "ToDatetimes", "ToDatetime"}

\* the list a single-value extraction counts
ListOf(op, e, allowNema) ==
    CASE op = "ToString" -> ToStrings(e)
      [] op = "ToInt" -> ToInts(e)
      [] op = "ToPersonName" -> ToPersonNames(e)
      [] op = "ToDate" -> ToDates(e, allowNema)
      [] op = "ToTime" -> ToTimes(e)
      [] op = "ToDatetime" -> ToDatetimes(e)

\* the VR code each semantic extraction is for
ExpectedVR(op) ==
    CASE op \in {"ToPersonNames", "ToPersonName"} -> "PN"
      [] op \in {"ToDates", "ToDate"} -> "DA"
      [] op \in {"ToTimes", "ToTime"} -> "TM"
      [] op \in {"ToDatetimes", "ToDatetime"} -> "DT"

\* the type each semantic extraction produces
TargetType(op) ==
    CASE op \in {"ToPersonNames", "ToPersonName"} -> "personname.Info"
      [] op \in {"ToDates", "ToDate"} -> "dcmtime.Date"
      [] op \in {"ToTimes", "ToTime"} -> "dcmtime.Time"
      [] op \in {"ToDatetimes", "ToDatetime"} -> "dcmtime.Datetime"

\* the fallible operation a call names, applied to the call's arguments
Fallible(op, e, checkSpec, allowNema) ==
    CASE op = "ToBytes" -> ToBytes(e)
      [] op = "ToStrings" -> ToStrings(e)
      [] op = "ToString" -> ToString(e, checkSpec)
      [] op = "ToInts" -> ToInts(e)
      [] op = "ToInt" -> ToInt(e, checkSpec)
      [] op = "ToPersonNames" -> ToPersonNames(e)
      [] op = "ToPersonName" -> ToPersonName(e, checkSpec)
      [] op = "ToDates" -> ToDates(e, allowNema)
      [] op = "ToDate" -> ToDate(e, checkSpec, allowNema)
      [] op = "ToTimes" -> ToTimes(e)
      [] op = "ToTime" -> ToTime(e, checkSpec)
      [] op = "ToDatetimes" -> ToDatetimes(e)
      [] op = "ToDatetime" -> ToDatetime(e, checkSpec)

ParseSentinels == {"ErrParsePersonName", "ErrParseDA", "ErrParseTM", "ErrParseDT"}

IsParseFailure(err) == \E x \in ParseSentinels : ErrIs(err, x)

\* C1: a single-value extraction whose list was obtained and does not hold
\* exactly one value (none included) fails with "multiple values found"
\* carrying the count, whatever checkSpec, the tag and the dictionary say.
C1_CountNotOneFails ==
    call.op \in SingleOps =>
        LET l == ListOf(call.op, element, call.allowNema)
        IN  (~IsErr(l.err) /\ Len(l.val) # 1) =>
                /\ ErrIs(call.err, "ErrMultipleValuesFound")
                /\ call.err.Kind = "ErrMultipleValuesFound"
                /\ call.err.Count = Len(l.val)

C1_Witness ==
    /\ call.op = "ToDate"
    /\ call.checkSpec
    /\ element.Tag = TagImageType
    /\ element.RawValueRepresentation = "DA"
    /\ element.Value.variant = "strings"
    /\ Len(element.Value.items) = 2
    /\ call.err.Kind = "ErrMultipleValuesFound"
    /\ call.err.Count = 2

\* C2: with exactly one value in the list, the extraction fails with the
\* multiplicity spec violation (carrying the raw VM) exactly when checkSpec is
\* set, the tag's group is even, the dictionary knows the tag and its VM is
\* not single; in every other case it returns the sole value.
C2_SpecViolationIff ==
    call.op \in SingleOps =>
        LET l == ListOf(call.op, element, call.allowNema)
            entry == Find(element.Tag)
            violates == /\ call.checkSpec
                        /\ element.Tag.Group % 2 = 0
                        /\ entry.found
                        /\ ~IsSingleValue(entry.VM)
        IN  (~IsErr(l.err) /\ Len(l.val) = 1) =>
                /\ violates =>
                       /\ call.err.Kind = "ErrSpecNotSingle"
                       /\ ErrIs(call.err, "ErrDicomSpecNotSingle")
                       /\ call.err.VM = entry.VM
                /\ ~violates => (~IsErr(call.err) /\ call.val = l.val[1])

C2_Witness ==
    /\ call.op = "ToString"
    /\ call.checkSpec
    /\ element.Tag = TagPrivate
    /\ element.Value.variant = "strings"
    /\ Len(element.Value.items) = 1
    /\ ~IsErr(call.err)
    /\ call.val = element.Value.items[1]

\* C3: a semantic extraction on an element whose declared VR is not the one
\* the extraction is for fails with the wrong-VR error, never with a parse
\* failure or a wrong-variant failure, whatever the payload holds.
C3_WrongVRFirst ==
    (call.op \in SemanticOps
        /\ element.RawValueRepresentation # ExpectedVR(call.op)) =>
            /\ call.err.Kind = "ErrBadVR"
            /\ ErrIs(call.err, "ErrWrongValueRepresentation")
            /\ ~IsParseFailure(call.err)
            /\ ~ErrIs(call.err, "ErrConvertTypeValue")

C3_Witness ==
    /\ call.op = "ToPersonName"
    /\ element.RawValueRepresentation = "LO"
    /\ element.Value.variant = "strings"
    /\ element.Value.items = << <<"=", "=", "=">> >>
    /\ call.err.Kind = "ErrBadVR"

\* C4: the wrong-VR error of each semantic extraction names that extraction's
\* target type, the VR code expected for it (PN, DA, TM, DT) and the VR code
\* found on the element.
C4_BadVRNamesTypeAndCodes ==
    (call.op \in SemanticOps /\ call.err.Kind = "ErrBadVR") =>
        /\ call.err.Target = TargetType(call.op)
        /\ call.err.Expected = ExpectedVR(call.op)
        /\ call.err.Found = element.RawValueRepresentation

\* C5: every failure a decoder operation returns wraps the base decode-value
\* error.
C5_AllFailuresAreDecodeValue ==
    (call.op # "none" /\ IsErr(call.err)) => ErrIs(call.err, "ErrDecodeValue")

\* C6: the facade operation panics exactly when the fallible operation of the
\* same name fails, with that failure, and otherwise returns exactly the
\* fallible operation's value.
C6_FacadeMirrorsFallible ==
    call.must =>
        LET r == Fallible(call.op, element, call.checkSpec, call.allowNema)
        IN  /\ call.panicked <=> IsErr(r.err)
            /\ call.panicked => call.err = r.err
            /\ ~call.panicked => (call.val = r.val /\ ~IsErr(call.err))

C6_Witness ==
    /\ call.must
    /\ call.op = "ToPersonName"
    /\ call.panicked
    /\ call.err.Kind = "ErrTooManyGroups"

\* the payload variant each plain list extraction is for
VariantOf(op) ==
    CASE op = "ToBytes" -> "bytes"
      [] op = "ToStrings" -> "strings"
      [] op = "ToInts" -> "ints"

\* C7: ToBytes, ToStrings and ToInts succeed exactly on a byte, string and
\* integer payload; they then return the payload unchanged, and on any other
\* variant they fail with the wrong-variant error.
C7_PlainListsByVariant ==
    (call.op \in {"ToBytes", "ToStrings", "ToInts"} /\ ~call.must) =>
        /\ IsErr(call.err) <=> element.Value.variant # VariantOf(call.op)
        /\ ~IsErr(call.err) => call.val = element.Value.items
        /\ IsErr(call.err) =>
               /\ call.err.Kind = "ErrConvertValue"
               /\ ErrIs(call.err, "ErrConvertTypeValue")

C7_Witness ==
    /\ call.op = "ToStrings"
    /\ ~call.must
    /\ element.Value.variant = "strings"
    /\ Len(element.Value.items) >= 2
    /\ element.Value.items[1] # element.Value.items[2]
    /\ call.val = element.Value.items

(***************************************************************************)
(* Properties of the name codec (checked under SpecPN)                     *)
(***************************************************************************)
CountChar(s, c) == Cardinality({i \in 1..Len(s) : s[i] = c})

\* the number of groups and, per group, of segments of the text given to Parse
GroupCount == CountChar(valueString, groupSep) + 1

GroupTexts == Split(valueString, groupSep)

SegmentCount(i) == CountChar(GroupTexts[i], segmentSep) + 1

OverlongGroups == {i \in 1..GroupCount : SegmentCount(i) > 5}

GroupName(i) ==
    CASE i = 1 -> "Alphabetic" [] i = 2 -> "Ideographic" [] i = 3 -> "Phonetic"

\* C8: Parse of a text with more than 3 groups fails with the too-many-groups
\* error carrying the group count, whatever the groups hold, and returns the
\* zero Info.
C8_TooManyGroups ==
    (stage # "input" /\ GroupCount > 3) =>
        /\ stage = "failed"
        /\ parseErr.Kind = "ErrTooManyGroups"
        /\ parseErr.Count = GroupCount
        /\ info = ZeroInfo

C8_Witness ==
    /\ stage = "failed"
    /\ GroupCount = 4
    /\ SegmentCount(1) > 5
    /\ parseErr.Kind = "ErrTooManyGroups"

\* C9: Parse of a text with at most 3 groups, one of them with more than 5
\* segments, fails with the too-many-segments error naming the first such
\* group and carrying its segment count; with at most 3 groups of at most 5
\* segments each it never fails.
C9_TooManySegments ==
    (stage # "input" /\ GroupCount <= 3) =>
        IF OverlongGroups = {}
        THEN stage # "failed" /\ ~IsErr(parseErr)
        ELSE LET first == CHOOSE i \in OverlongGroups :
                              \A j \in OverlongGroups : i <= j
             IN  /\ stage = "failed"
                 /\ parseErr.Kind = "ErrTooManyGroupSegments"
                 /\ parseErr.Group = GroupName(first)
                 /\ parseErr.Count = SegmentCount(first)

C9_Witness ==
    /\ stage = "failed"
    /\ GroupCount = 3
    /\ OverlongGroups = {2, 3}
    /\ parseErr.Kind = "ErrTooManyGroupSegments"
    /\ parseErr.Group = "Ideographic"

\* C10: for every text Parse accepts, serializing the result never panics and
\* parsing the serialization gives back the same Info: the same 15 segments
\* and the same four trailing null levels.
C10_ReparseSameInfo ==
    /\ stage = "rendered" => ~rendered.panicked
    /\ stage = "reparsed" => (~IsErr(reparsed.err) /\ reparsed.val = info)

C10_Witness ==
    /\ stage = "reparsed"
    /\ info.TrailingNullLevel = InfoNullAll
    /\ info.Alphabetic.TrailingNullLevel = GroupNullGiven
    /\ info.Alphabetic.FamilyName # <<>>
    /\ reparsed.val = info

\* the groups of the text Info.DCM() returned for the parsed Info
RenderedGroups == Split(rendered.text, groupSep)

\* C11: when the parsed text ends with a group separator but holds fewer than
\* two of them, or one of its groups ends with a segment separator but holds
\* fewer than four, Parse followed by DCM returns a text with the full set of
\* separators at that tier: two '=', respectively four '^' in that group.
C11_MissingSepsAdded ==
    stage = "rendered" =>
        /\ (HasSuffix(valueString, groupSep) /\ CountChar(valueString, groupSep) < 2) =>
               CountChar(rendered.text, groupSep) = 2
        /\ \A i \in 1..GroupCount :
               (HasSuffix(GroupTexts[i], segmentSep)
                   /\ CountChar(GroupTexts[i], segmentSep) < 4) =>
                   /\ Len(RenderedGroups) >= i
                   /\ CountChar(RenderedGroups[i], segmentSep) = 4

Parsed == stage \in {"parsed", "rendered", "reparsed"}

OnlySeparators(s) == \A i \in 1..Len(s) : s[i] \in {groupSep, segmentSep}

\* C13: for every text Parse accepts, IsEmpty of the parsed Info is true
\* exactly when the text is empty or holds nothing but '=' and '^'.
C13_EmptyIffOnlySeparators ==
    Parsed => (InfoIsEmpty(info) <=> OnlySeparators(valueString))

C13_Witness ==
    /\ stage = "parsed"
    /\ valueString = <<"=", "^", "A">>
    /\ GroupIsEmpty(info.Alphabetic)
    /\ ~InfoIsEmpty(info)

\* C14: Parse of the empty text succeeds with the zero Info (15 empty
\* segments, level NONE overall and in each group), whose DCM() is the empty
\* text.
C14_EmptyTextZeroInfo ==
    (valueString = <<>> /\ stage # "input") =>
        /\ Parsed
        /\ ~IsErr(parseErr)
        /\ info = ZeroInfo
        /\ stage \in {"rendered", "reparsed"} =>
               (~rendered.panicked /\ rendered.text = <<>>)

C14_Witness ==
    /\ valueString = <<>>
    /\ stage = "rendered"
    /\ info.TrailingNullLevel = InfoNullNone
    /\ rendered.text = <<>>

InfoSegments(i) ==
    GroupSegments(i.Alphabetic) \o GroupSegments(i.Ideographic)
        \o GroupSegments(i.Phonetic)

InfoLevels(i) ==
    <<i.TrailingNullLevel, i.Alphabetic.TrailingNullLevel,
      i.Ideographic.TrailingNullLevel, i.Phonetic.TrailingNullLevel>>

NoSeparators(i) ==
    \A k \in 1..Len(InfoSegments(i)) :
        \A c \in 1..Len(InfoSegments(i)[k]) :
            InfoSegments(i)[k][c] \notin {groupSep, segmentSep}

\* C12: for an Info x whose segments hold no separator, x.WithTrailingNulls()
\* serializes without panicking, Parse accepts that text, and the parsed Info
\* without trailing nulls serializes to the text x.WithoutTrailingNulls()
\* serializes to.
C12_TrailingNullsRoundTrip ==
    (fmtOp.name = "WithTrailingNulls" /\ NoSeparators(fmtInfo)) =>
        /\ fmtStage = "text" => ~fmtText.panicked
        /\ fmtStage = "back" =>
               /\ ~IsErr(fmtBack.err)
               /\ InfoDCM(WithoutTrailingNulls(fmtBack.val).ret)
                      = InfoDCM(WithoutTrailingNulls(fmtInfo).ret)

\* 'A^B' -> 'A^B^^^=^^^^=^^^^' -> 'A^B'
C12_Witness ==
    /\ fmtStage = "back"
    /\ fmtOp.name = "WithTrailingNulls"
    /\ fmtText.text = <<"A", "^", "B", "^", "^", "^", "=", "^", "^", "^", "^",
                        "=", "^", "^", "^", "^">>
    /\ InfoDCM(WithoutTrailingNulls(fmtBack.val).ret).text = <<"A", "^", "B">>

\* C16: Info.DCM() panics exactly when the Info's own level exceeds 2 or the
\* level of one of its groups exceeds 4; otherwise it returns a text.
C16_DCMPanicsIffOutOfRange ==
    fmtStage = "text" =>
        (fmtText.panicked <=>
            \/ fmtCur.TrailingNullLevel > 2
            \/ fmtCur.Alphabetic.TrailingNullLevel > 4
            \/ fmtCur.Ideographic.TrailingNullLevel > 4
            \/ fmtCur.Phonetic.TrailingNullLevel > 4)

C16_Witness ==
    /\ fmtStage = "text"
    /\ fmtCur.TrailingNullLevel = 3
    /\ fmtCur.Alphabetic.TrailingNullLevel <= 4
    /\ fmtCur.Ideographic.TrailingNullLevel <= 4
    /\ fmtCur.Phonetic.TrailingNullLevel <= 4
    /\ fmtText.panicked

\* the four levels a With...() call asks for
AskedLevels(op) ==
    CASE op.name = "WithTrailingNulls" -> <<2, 4, 4, 4>>
      [] op.name = "WithoutTrailingNulls" -> <<0, 0, 0, 0>>
      [] op.name = "WithFormat" ->
             <<op.infoNullSepLevel, op.alphabeticNullSepLevel,
               op.ideographicNullSepLevel, op.phoneticNullSepLevel>>

\* C17: a call of WithTrailingNulls, WithoutTrailingNulls or WithFormat leaves
\* the receiver as it was and returns an Info with the receiver's 15 segments,
\* with the four levels ALL, NONE, respectively the passed ones, and with the
\* receiver's IsEmpty().
C17_WithChangesLevelsOnly ==
    [][(/\ fmtStage = "built" /\ fmtStage' = "shaped"
        /\ fmtOp'.name \in {"WithTrailingNulls", "WithoutTrailingNulls", "WithFormat"}) =>
          /\ fmtInfo' = fmtInfo
          /\ InfoSegments(fmtCur') = InfoSegments(fmtInfo)
          /\ InfoLevels(fmtCur') = AskedLevels(fmtOp')
          /\ InfoIsEmpty(fmtCur') = InfoIsEmpty(fmtInfo)]_vars

C17_Witness ==
    /\ fmtStage = "shaped"
    /\ fmtOp.name = "WithFormat"
    /\ fmtOp.ideographicNullSepLevel # fmtOp.phoneticNullSepLevel
    /\ InfoLevels(fmtCur) = AskedLevels(fmtOp)
    /\ InfoLevels(fmtInfo) # InfoLevels(fmtCur)
    /\ ~InfoIsEmpty(fmtCur)

(***************************************************************************)
(* Properties of the separator renderer (checked under SpecGroup)          *)
(***************************************************************************)
\* index, counted from 0, of the last non-empty segment; 0 when there is none
LastFilled(segments) ==
    LET filled == {i \in 1..Len(segments) : segments[i] # <<>>}
    IN  IF filled = {} THEN 0
        ELSE (CHOOSE i \in filled : \A j \in filled : j <= i) - 1

\* C18: serializing the five segments of a group with a level within 0..4
\* writes exactly max(level, index of the last non-empty segment) separators:
\* with level 0 the text never ends with the separator, with level 4 it holds
\* 4 separators.
C18_SeparatorCount ==
    (groupStage = "text" /\ groupInfo.TrailingNullLevel <= 4) =>
        /\ ~groupText.panicked
        /\ CountChar(groupText.text, segmentSep) =
               Max(groupInfo.TrailingNullLevel, LastFilled(GroupSegments(groupInfo)))
        /\ groupInfo.TrailingNullLevel = 0 => ~HasSuffix(groupText.text, segmentSep)
        /\ groupInfo.TrailingNullLevel = 4 => CountChar(groupText.text, segmentSep) = 4

C18_Witness ==
    /\ groupStage = "text"
    /\ groupInfo.TrailingNullLevel = GroupNullMiddle
    /\ groupInfo.FamilyName = <<"A">>
    /\ groupText.text = <<"A", "^", "^">>

(***************************************************************************)
(* Properties of the date codec (checked under SpecDate)                   *)
(***************************************************************************)
IsLeap(y) == (y % 4 = 0 /\ y % 100 # 0) \/ y % 400 = 0

DaysIn(y, m) ==
    CASE m = 2 -> IF IsLeap(y) THEN 29 ELSE 28
      [] m \in {4, 6, 9, 11} -> 30
      [] OTHER -> 31

\* a strict DA text of 4, 6 or 8 digits that names a month and a day of the
\* calendar
ValidStrictDate(s) ==
    /\ AllDigits(s)
    /\ Len(s) \in {4, 6, 8}
    /\ Len(s) >= 6 => Atoi(SubSeq(s, 5, 6)) \in 1..12
    /\ Len(s) = 8 =>
           Atoi(SubSeq(s, 7, 8)) \in 1..DaysIn(Atoi(SubSeq(s, 1, 4)), Atoi(SubSeq(s, 5, 6)))

\* C19: ParseDate(text, false) accepts every valid strict text of 4, 6 or 8
\* digits, and DCM() of the Date is that text.
C19_StrictDateRoundTrip ==
    (~nemaAllowed /\ ValidStrictDate(daValue) /\ daStage # "input") =>
        /\ daStage # "failed"
        /\ ~IsErr(daParsed.err)
        /\ daStage = "rendered" => daText = daValue

C19_Witness ==
    /\ daStage = "rendered"
    /\ ~nemaAllowed
    /\ daValue = <<"2", "0", "2", "0", "0", "3">>
    /\ daText = daValue

\* C20: a valid 4-digit text parses to precision YEAR with month 1 and day 1,
\* a 6-digit text to precision MONTH with its month and day 1, an 8-digit text
\* to full precision with its month and day.
C20_PrecisionAndDefaults ==
    (daStage \in {"parsed", "rendered"} /\ ValidStrictDate(daValue)) =>
        LET da == daParsed.val
            n == Len(daValue)
        IN  /\ da.Year = Atoi(SubSeq(daValue, 1, 4))
            /\ n = 4 => (da.Precision = "Year" /\ da.Month = 1 /\ da.Day = 1)
            /\ n = 6 => /\ da.Precision = "Month"
                        /\ da.Month = Atoi(SubSeq(daValue, 5, 6))
                        /\ da.Day = 1
            /\ n = 8 => /\ da.Precision = "Full"
                        /\ da.Month = Atoi(SubSeq(daValue, 5, 6))
                        /\ da.Day = Atoi(SubSeq(daValue, 7, 8))

C20_Witness ==
    /\ daStage = "parsed"
    /\ daValue = <<"2", "0", "2", "0">>
    /\ daParsed.val = [Year |-> 2020, Month |-> 1, Day |-> 1, Precision |-> "Year",
                       IsNEMA |-> FALSE]

\* a legacy text: YYYY.MM or YYYY.MM.DD
IsLegacyForm(s) ==
    /\ Len(s) \in {7, 10}
    /\ \A i \in 1..Len(s) : IF i \in {5, 8} THEN s[i] = "." ELSE s[i] \in DOMAIN DigitVal

\* the text with its dots taken out
Undotted(s) == Flatten([i \in 1..Len(s) |-> IF s[i] = "." THEN <<>> ELSE <<s[i]>>])

SameCalendar(a, b) ==
    /\ a.Year = b.Year
    /\ a.Month = b.Month
    /\ a.Day = b.Day
    /\ a.Precision = b.Precision

DateParsed == daStage \in {"parsed", "failed", "rendered"}

\* C21: a legacy text YYYY.MM or YYYY.MM.DD parsed with allowNema gives the
\* calendar value and precision of its strict text parsed without it, and
\* fails with ErrParseDA without allowNema; a strict text accepted without
\* allowNema is accepted with it, with the same result.
C21_LegacyMatchesStrict ==
    DateParsed =>
        LET strict == ParseDate(Undotted(daValue), FALSE)
            plain == ParseDate(daValue, FALSE)
        IN  /\ (IsLegacyForm(daValue) /\ nemaAllowed) =>
                /\ ~IsErr(daParsed.err)
                /\ ~IsErr(strict.err)
                /\ SameCalendar(daParsed.val, strict.val)
                /\ daParsed.val.Year = Atoi(SubSeq(daValue, 1, 4))
                /\ daParsed.val.Month = Atoi(SubSeq(daValue, 6, 7))
                /\ daParsed.val.Precision = IF Len(daValue) = 7 THEN "Month" ELSE "Full"
            /\ (IsLegacyForm(daValue) /\ ~nemaAllowed) =>
                /\ daStage = "failed"
                /\ ErrIs(daParsed.err, "ErrParseDA")
            /\ (AllDigits(daValue) /\ Len(daValue) \in {4, 6, 8}) =>
                /\ ~IsErr(plain.err)
                /\ daParsed = plain

C21_Witness ==
    /\ daStage = "parsed"
    /\ nemaAllowed
    /\ daValue = <<"2", "0", "2", "0", ".", "0", "3">>
    /\ daParsed.val.Year = 2020
    /\ daParsed.val.Month = 3
    /\ daParsed.val.Precision = "Month"

DateWritten == daStage \in {"rendered", "emitted"}

\* the number of digits Date.DCM writes at a precision
DigitsAt(precision) ==
    CASE precision = "Year" -> 4 [] precision = "Month" -> 6 [] OTHER -> 8

C24_WrongShapeFails ==
    (/\ DateParsed
     /\ \/ Len(Undotted(daValue)) \notin {4, 6, 8}
        \/ ~AllDigits(daValue) /\ ~IsLegacyForm(daValue)) =>
        /\ daStage = "failed"
        /\ daParsed.err.Kind = "ErrParseDA"
        /\ ErrIs(daParsed.err, "ErrParseDA")

C24_Witness ==
    /\ daStage = "failed"
    /\ nemaAllowed
    /\ daValue = <<"2", "0", ".", "2", "0">>
    /\ ErrIs(daParsed.err, "ErrParseDA")

(***************************************************************************)
(* Properties of the null levels Parse records (checked under SpecPN)      *)
(***************************************************************************)
\* the text of group k of the text given to Parse, empty when the text has
\* no such group
GroupTextAt(k) == IF k <= GroupCount THEN GroupTexts[k] ELSE <<>>

ParsedGroupAt(k) ==
    CASE k = 1 -> info.Alphabetic [] k = 2 -> info.Ideographic [] k = 3 -> info.Phonetic

\* the index of the last element of a tier's split when that element is
\* empty and not the only one, NONE otherwise
LastEmptyIndex(s, sep) ==
    LET parts == Split(s, sep)
    IN  IF Len(parts) = 1 \/ parts[Len(parts)] # <<>> THEN 0 ELSE Len(parts) - 1

GroupAt(i, k) ==
    CASE k = 1 -> i.Alphabetic [] k = 2 -> i.Ideographic [] k = 3 -> i.Phonetic

\* C26: WithoutEmptyGroups returns an Info with overall level NONE, level
\* NONE in every group that IsEmpty, the receiver's level in every other group
\* and the receiver's 15 segments; applied to its own result it changes
\* nothing, and its result for an IsEmpty Info serializes to the empty text.
C26_WithoutEmptyGroups ==
    fmtOp.name = "WithoutEmptyGroups" =>
        /\ fmtCur.TrailingNullLevel = InfoNullNone
        /\ InfoSegments(fmtCur) = InfoSegments(fmtInfo)
        /\ \A k \in 1..3 :
               GroupAt(fmtCur, k).TrailingNullLevel =
                   IF GroupIsEmpty(GroupAt(fmtInfo, k))
                   THEN GroupNullNone
                   ELSE GroupAt(fmtInfo, k).TrailingNullLevel
        /\ WithoutEmptyGroups(fmtCur).ret = fmtCur
        /\ (InfoIsEmpty(fmtInfo) /\ fmtStage \in {"text", "back"}) =>
               (~fmtText.panicked /\ fmtText.text = <<>>)

C26_Witness ==
    /\ fmtOp.name = "WithoutEmptyGroups"
    /\ fmtStage = "shaped"
    /\ ~GroupIsEmpty(fmtInfo.Alphabetic)
    /\ GroupIsEmpty(fmtInfo.Ideographic)
    /\ fmtInfo.Alphabetic.TrailingNullLevel = GroupNullAll
    /\ fmtInfo.Ideographic.TrailingNullLevel = GroupNullAll
    /\ fmtCur.Alphabetic.TrailingNullLevel = GroupNullAll
    /\ fmtCur.Ideographic.TrailingNullLevel = GroupNullNone

\* the groups of the text Info.DCM() returned for the formatted Info
FmtTextGroups == Split(fmtText.text, groupSep)

C27_ParsedLevelsInRange ==
    Parsed =>
        /\ info.TrailingNullLevel \in InfoNullNone..InfoNullAll
        /\ \A k \in 1..3 :
               ParsedGroupAt(k).TrailingNullLevel \in GroupNullNone..GroupNullAll
        /\ ~InfoDCM(info).panicked
        /\ ~InfoDCM(WithTrailingNulls(info).ret).panicked
        /\ ~InfoDCM(WithoutTrailingNulls(info).ret).panicked
        /\ ~InfoDCM(WithoutEmptyGroups(info).ret).panicked
        /\ stage \in {"rendered", "reparsed"} => ~rendered.panicked

C27_Witness ==
    /\ stage = "rendered"
    /\ valueString = <<"^", "^", "^", "^", "=", "=">>
    /\ info.Alphabetic.TrailingNullLevel = GroupNullAll
    /\ info.TrailingNullLevel = InfoNullAll
    /\ ~rendered.panicked

(***************************************************************************)
(* Properties of the order of the decoder's checks and of what a failed    *)
(* extraction returns (checked under Spec)                                 *)
(***************************************************************************)
SingleSemanticOps == {"ToPersonName", "ToDate", "ToTime", "ToDatetime"}

\* the parser a semantic extraction applies to each string
ParseOne(op, str, allowNema) ==
    CASE op \in {"ToPersonNames", "ToPersonName"} -> Parse(str)
      [] op \in {"ToDates", "ToDate"} -> ParseDate(str, allowNema)
      [] op \in {"ToTimes", "ToTime"} -> ParseTime(str)
      [] op \in {"ToDatetimes", "ToDatetime"} -> ParseDatetime(str)

\* the indexes, from one, of the strings of the element the call's parser
\* rejects
BadStrings ==
    IF element.Value.variant # "strings" THEN {}
    ELSE {i \in 1..Len(element.Value.items) :
             IsErr(ParseOne(call.op, element.Value.items[i], call.allowNema).err)}

\* the first check of a single-value semantic extraction the element fails
FirstFailedCheck ==
    CASE element.RawValueRepresentation # ExpectedVR(call.op) -> "vr"
      [] element.Value.variant # "strings" -> "variant"
      [] BadStrings # {} -> "parse"
      [] Len(element.Value.items) # 1 -> "count"
      [] /\ call.checkSpec
         /\ element.Tag.Group % 2 = 0
         /\ element.Tag \in DOMAIN tagDict
         /\ tagDict[element.Tag] # "1" -> "multiplicity"
      [] OTHER -> "none"

\* C28: ToPersonName, ToDate, ToTime and ToDatetime report the first check
\* that fails in the order VR, payload variant, parsing of every string,
\* count of one, dictionary multiplicity; so two strings of which one is
\* malformed give a parse failure, not 'multiple values found', and two
\* well-formed strings give 'multiple values found', not the multiplicity
\* violation.
C28_ChecksInOrder ==
    call.op \in SingleSemanticOps =>
        CASE FirstFailedCheck = "vr" ->
                 /\ ErrIs(call.err, "ErrWrongValueRepresentation")
                 /\ ~ErrIs(call.err, "ErrConvertTypeValue")
                 /\ ~IsParseFailure(call.err)
          [] FirstFailedCheck = "variant" ->
                 /\ ErrIs(call.err, "ErrConvertTypeValue")
                 /\ ~ErrIs(call.err, "ErrWrongValueRepresentation")
          [] FirstFailedCheck = "parse" ->
                 /\ IsParseFailure(call.err)
                 /\ call.err.Index + 1 \in BadStrings
                 /\ \A i \in BadStrings : call.err.Index + 1 <= i
                 /\ ~ErrIs(call.err, "ErrMultipleValuesFound")
          [] FirstFailedCheck = "count" ->
                 /\ ErrIs(call.err, "ErrMultipleValuesFound")
                 /\ call.err.Count = Len(element.Value.items)
                 /\ ~ErrIs(call.err, "ErrDicomSpecNotSingle")
          [] FirstFailedCheck = "multiplicity" ->
                 /\ ErrIs(call.err, "ErrDicomSpecNotSingle")
                 /\ ~ErrIs(call.err, "ErrMultipleValuesFound")
          [] OTHER -> ~IsErr(call.err)

C28_Witness ==
    /\ call.op = "ToPersonName"
    /\ ~call.must
    /\ element.RawValueRepresentation = vrPersonName
    /\ element.Value.variant = "strings"
    /\ element.Value.items = << <<"A", "^", "B">>, <<"=", "=", "=">> >>
    /\ call.err.Kind = "ErrTooManyGroups"
    /\ call.err.Index = 1
    /\ ~ErrIs(call.err, "ErrMultipleValuesFound")

\* C29: when the string at index i of n fails to parse, ToDates, ToTimes and
\* ToDatetimes return no list, ToPersonNames returns a list of n entries, the
\* parsed names before i and zero Infos from i on, and ToPersonName returns
\* the zero Info.
C29_PartialListOnParseFailure ==
    (/\ call.op \in {"ToPersonNames", "ToPersonName", "ToDates", "ToTimes", "ToDatetimes"}
     /\ ~call.must
     /\ element.RawValueRepresentation = ExpectedVR(call.op)
     /\ BadStrings # {}) =>
        LET strings == element.Value.items
            i == call.err.Index + 1
        IN  /\ IsParseFailure(call.err)
            /\ i \in BadStrings
            /\ \A j \in BadStrings : i <= j
            /\ call.op \in {"ToDates", "ToTimes", "ToDatetimes"} => call.val = <<>>
            /\ call.op = "ToPersonNames" =>
                   /\ Len(call.val) = Len(strings)
                   /\ \A j \in 1..Len(strings) :
                          call.val[j] = IF j < i THEN Parse(strings[j]).val ELSE ZeroInfo
            /\ call.op = "ToPersonName" => call.val = ZeroInfo

C29_Witness ==
    /\ call.op = "ToPersonNames"
    /\ ~call.must
    /\ element.Value.items = << <<"A", "^", "B">>, <<"=", "=", "=">> >>
    /\ IsParseFailure(call.err)
    /\ call.err.Index = 1
    /\ Len(call.val) = 2
    /\ call.val[1].Alphabetic.FamilyName = <<"A">>
    /\ call.val[1].Alphabetic.GivenName = <<"B">>
    /\ call.val[2] = ZeroInfo

====
